---- MODULE Spec2Model ----
(***************************************************************************)
(* Model of obspyDMT/availability.py: the two availability fetchers        *)
(* (_get_arclink_availability, _get_iris_availability), the channel        *)
(* priority filter (filter_channel_priority) and the merging               *)
(* get_availability.                                                       *)
(*                                                                         *)
(* A Python string is a sequence of one-character strings, so that         *)
(* split, join, startswith, strip and fnmatch are computed on characters.  *)
(* A dict is a function whose domain is its key set.                       *)
(***************************************************************************)
EXTENDS Integers, Sequences, FiniteSets, TLC

VARIABLES
    \* filter_channel_priority
    channels, priorities, pc_filter, filtered, refiltered, chans_seen,
    \* get_availability
    logger, pc, availability, diagnostics, called, outcome, propagated,
    \* the fetchers: arguments, the remote response, position and result
    min_lat, max_lat, min_lng, max_lng, starttime, endtime,
    everything, root, pc_fetch, available_channels

filter_vars == <<channels, priorities, pc_filter, filtered, refiltered, chans_seen>>
merge_vars == <<logger, pc, availability, diagnostics, called, outcome, propagated>>
fetch_vars == <<min_lat, max_lat, min_lng, max_lng, starttime, endtime,
                everything, root, pc_fetch, available_channels>>

vars == <<filter_vars, merge_vars, fetch_vars>>

(***************************************************************************)
(* Bounds of the model.                                                    *)
(***************************************************************************)
MaxKeys == 3
MaxPrio == 2
MaxCoord == 2
MaxTime == 2
MaxEntries == 3

(***************************************************************************)
(* Strings and dicts.                                                      *)
(***************************************************************************)
EmptyMap == [k \in {} |-> 0]

\* A mutant: the keys already present keep their values.
UpdateKeepsExisting(base, other) ==
    [k \in (DOMAIN base) \cup (DOMAIN other) |->
        IF k \in DOMAIN base THEN base[k] ELSE other[k]]

\* dict.update(other): the keys of other overwrite those of base.
Update(base, other) ==
    [k \in (DOMAIN base) \cup (DOMAIN other) |->
        IF k \in DOMAIN other THEN other[k] ELSE base[k]]

\* An arbitrary but fixed iteration order of a set (dict.keys(), list(set(..))).
RECURSIVE SetToSeq(_)
SetToSeq(S) ==
    IF S = {} THEN <<>>
    ELSE LET x == CHOOSE y \in S : TRUE
         IN  <<x>> \o SetToSeq(S \ {x})

Range(f) == {f[i] : i \in DOMAIN f}

\* str.split(sep) for a one-character separator.
RECURSIVE SplitFrom(_, _, _, _)
SplitFrom(s, sep, i, cur) ==
    IF i > Len(s) THEN <<cur>>
    ELSE IF s[i] = sep THEN <<cur>> \o SplitFrom(s, sep, i + 1, <<>>)
    ELSE SplitFrom(s, sep, i + 1, Append(cur, s[i]))

Split(s, sep) == SplitFrom(s, sep, 1, <<>>)

\* sep.join(parts)
RECURSIVE Join(_, _)
Join(sep, parts) ==
    IF Len(parts) = 0 THEN <<>>
    ELSE IF Len(parts) = 1 THEN parts[1]
    ELSE parts[1] \o <<sep>> \o Join(sep, Tail(parts))

\* "%s.%s" % (a, b)
Fmt2(a, b) == a \o <<".">> \o b

\* "%s.%s.%s.%s" % (network, station, location, channel)
Fmt4(net, sta, loc, chan) ==
    net \o <<".">> \o sta \o <<".">> \o loc \o <<".">> \o chan

\* s.startswith(prefix)
StartsWith(s, prefix) ==
    /\ Len(prefix) =< Len(s)
    /\ SubSeq(s, 1, Len(prefix)) = prefix

\* seq[:n]
Take(seq, n) == SubSeq(seq, 1, IF n < Len(seq) THEN n ELSE Len(seq))

\* Sample {latitude, longitude} values of an availability map.
StationLocations == {[latitude |-> 1, longitude |-> 1], [latitude |-> 5, longitude |-> 5]}

(***************************************************************************)
(* fnmatch.fnmatch(name, pat) on a POSIX system (normcase is the identity):*)
(* '*' any run, '?' one character, '[seq]' a character of seq, '[!seq]' a  *)
(* character not in seq, an unclosed '[' is a literal.  Ranges (a-z) are   *)
(* not modelled: the alphabet below has no '-'.                            *)
(***************************************************************************)
\* The index of the ']' closing the class opened just before index i, or 0.
RECURSIVE ScanClose(_, _)
ScanClose(pat, j) ==
    IF j > Len(pat) THEN 0
    ELSE IF pat[j] = "]" THEN j
    ELSE ScanClose(pat, j + 1)

ClassEnd(pat, i) ==
    LET j1 == IF i =< Len(pat) /\ pat[i] = "!" THEN i + 1 ELSE i
        j2 == IF j1 =< Len(pat) /\ pat[j1] = "]" THEN j1 + 1 ELSE j1
    IN  ScanClose(pat, j2)

RECURSIVE GlobFrom(_, _, _, _)
GlobFrom(name, i, pat, j) ==
    IF j > Len(pat) THEN i > Len(name)
    ELSE IF pat[j] = "*" THEN
        \E k \in i..(Len(name) + 1) : GlobFrom(name, k, pat, j + 1)
    ELSE IF pat[j] = "?" THEN
        i =< Len(name) /\ GlobFrom(name, i + 1, pat, j + 1)
    ELSE IF pat[j] = "[" /\ ClassEnd(pat, j + 1) # 0 THEN
        LET close   == ClassEnd(pat, j + 1)
            stuff   == SubSeq(pat, j + 1, close - 1)
            negated == stuff[1] = "!"
            members == IF negated THEN Range(Tail(stuff)) ELSE Range(stuff)
        IN  /\ i =< Len(name)
            /\ (name[i] \in members) # negated
            /\ GlobFrom(name, i + 1, pat, close + 1)
    ELSE
        i =< Len(name) /\ name[i] = pat[j] /\ GlobFrom(name, i + 1, pat, j + 1)

fnmatch(name, pat) == GlobFrom(name, 1, pat, 1)

(***************************************************************************)
(* The fetchers: _get_arclink_availability and _get_iris_availability.     *)
(* The remote response is an input: the listing of client.getNetworks in   *)
(* its iteration order, and the parsed document of c.availability.         *)
(***************************************************************************)
Coords == 0..MaxCoord
Times == 0..MaxTime

\* A mutant: the bounds are exclusive.
InBoundsExclusive(latitude, longitude, lat1, lat2, lng1, lng2) ==
    ~ (~ (lat1 < latitude /\ latitude < lat2) \/ ~ (lng1 < longitude /\ longitude < lng2))

\* not (min_lat <= latitude <= max_lat) or not (min_lng <= longitude <= max_lng)
\* is the condition to skip the station.
InBounds(latitude, longitude, lat1, lat2, lng1, lng2) ==
    ~ (~ (lat1 =< latitude /\ latitude =< lat2) \/ ~ (lng1 =< longitude /\ longitude =< lng2))

IdleFetch ==
    /\ min_lat = 0 /\ max_lat = 0 /\ min_lng = 0 /\ max_lng = 0
    /\ starttime = 0 /\ endtime = 0
    /\ everything = <<>>
    /\ root = <<>>
    /\ pc_fetch = "idle"
    /\ available_channels = EmptyMap

(***************************************************************************)
(* get_availability                                                        *)
(*                                                                         *)
(* The two fetchers are the environment here: each call either returns an  *)
(* availability map or raises an exception of some class.  The diagnostic  *)
(* sinks (logger.error, warnings.warn under the default filters) return    *)
(* normally.                                                               *)
(***************************************************************************)
MergeKeys == {Fmt4(<<"Y">>, <<"B">>, <<>>, <<"L", "H", "Z">>),
              Fmt4(<<"X">>, <<"A">>, <<>>, <<"H", "H", "Z">>)}

FetcherMaps == UNION {[ks -> StationLocations] : ks \in SUBSET MergeKeys}

\* Classes of the exceptions a fetcher call can end with: a failed request,
\* a malformed response, and an interrupt arriving during the request.
ExceptionClasses == {"IOError", "XMLSyntaxError", "KeyboardInterrupt"}

\* The classes of ExceptionClasses that derive from Exception.
ExceptionSubclasses == {"IOError", "XMLSyntaxError"}

Outcomes ==
    [kind : {"returns"}, value : FetcherMaps, exc : {"none"}] \cup
    [kind : {"raises"}, value : {EmptyMap}, exc : ExceptionClasses]

NotCalled == [kind |-> "not called", value |-> EmptyMap, exc |-> "none"]

Sources == {"IRIS", "ArcLink"}

\* A mutant: the handler names one exception class instead of Exception.
CatchesIOErrorOnly(exc) == exc = "IOError"

\* except Exception as e
Catches(exc) == exc \in ExceptionSubclasses

\* A mutant: the branches of "if logger" swapped.
SinkInverted(lg) == IF lg = "None" THEN "logger.error" ELSE "warnings.warn"

\* if logger: logger.error(msg) else: warnings.warn(msg)
Sink(lg) == IF lg # "None" THEN "logger.error" ELSE "warnings.warn"

\* msg = "Could not get availability from <source>\n\t<class>: <message>"
Message(source, exc) == [source |-> source, exc |-> exc]

IdleMerge ==
    /\ logger = "None"
    /\ pc = "idle"
    /\ availability = EmptyMap
    /\ diagnostics = <<>>
    /\ called = <<>>
    /\ outcome = [s \in Sources |-> NotCalled]
    /\ propagated = "none"

(***************************************************************************)
(* Inputs of filter_channel_priority.                                      *)
(***************************************************************************)
LocCodes == {<<>>, <<"0">>, <<"0", "0">>}
ChanCodes == {<<"H", "H", "Z">>, <<"H", "H", "N">>, <<"B", "H", "Z">>}

FilterKeys == {Fmt4(<<"X">>, <<"A">>, loc, chan) : loc \in LocCodes, chan \in ChanCodes}

ChannelMaps ==
    UNION {[ks -> StationLocations] :
              ks \in {s \in SUBSET FilterKeys : Cardinality(s) =< MaxKeys}}

\* The default value of the priorities argument.
DefaultPriorities ==
    << <<"H", "H", "[", "Z", ",", "N", ",", "E", "]">>,
       <<"B", "H", "[", "Z", ",", "N", ",", "E", "]">>,
       <<"M", "H", "[", "Z", ",", "N", ",", "E", "]">>,
       <<"E", "H", "[", "Z", ",", "N", ",", "E", "]">>,
       <<"L", "H", "[", "Z", ",", "N", ",", "E", "]">> >>

PatternPool ==
    { <<"B", "H", "[", "Z", ",", "N", ",", "E", "]">>,
      <<"H", "H", "[", "!", "Z", "]">>,
      <<"?", "H", "*">> }

PriorityLists ==
    {DefaultPriorities} \cup
    UNION {[1..n -> PatternPool] : n \in 0..MaxPrio}

(***************************************************************************)
(* filter_channel_priority                                                 *)
(***************************************************************************)
Last(seq) == seq[Len(seq)]

\* set([".".join(_i.split(".")[:3]) for _i in channels.keys()])
AllLocations(chs) == {Join(".", Take(Split(k, "."), 3)) : k \in DOMAIN chs}

\* The condition that puts a key's channel code into a location's chans.
KeyInLocation(key, location) == StartsWith(key, location)

\* chans = [_i.split(".")[-1] for _i in channels.keys() if _i.startswith(location)]
ChansOf(chs, location) ==
    LET keys == SetToSeq(DOMAIN chs)
        sel  == SelectSeq(keys, LAMBDA k : KeyInLocation(k, location))
    IN  [i \in 1..Len(sel) |-> Last(Split(sel[i], "."))]

\* The inner loop over chans for one pattern.
Matching(chans, pattern) == SelectSeq(chans, LAMBDA c : fnmatch(c, pattern))

\* The loop over priorities: the matches of the first pattern that has any.
RECURSIVE WalkPriorities(_, _)
WalkPriorities(chans, prios) ==
    IF Len(prios) = 0 THEN <<>>
    ELSE LET current_channels == Matching(chans, Head(prios))
         IN  IF Len(current_channels) > 0 THEN current_channels
             ELSE WalkPriorities(chans, Tail(prios))

\* A mutant: the channels of the first matching pattern are dropped, the rest kept.
WalkPrioritiesInverted(chans, prios) ==
    LET cur == WalkPriorities(chans, prios)
    IN  SelectSeq(chans, LAMBDA c : c \notin Range(cur))

CurrentChannels(chans, prios) == WalkPriorities(chans, prios)

\* A mutant: the value stored is that of some key of the input, not of this key.
StoredValueOfAnyKey(chs, key) == chs[SetToSeq(DOMAIN chs)[1]]

\* The value stored under key: channels[key].
StoredValue(chs, key) == chs[key]

\* for chan in current_channels: filtered_channels[key] = channels[key]
\* A key that is not in channels raises KeyError.
RECURSIVE CopyChannels(_, _, _, _)
CopyChannels(chs, location, current_channels, acc) ==
    IF Len(current_channels) = 0 THEN [status |-> "returned", value |-> acc]
    ELSE LET key == Fmt2(location, Head(current_channels))
         IN  IF key \notin DOMAIN chs
             THEN [status |-> "KeyError", value |-> EmptyMap]
             ELSE CopyChannels(chs, location, Tail(current_channels),
                      Update(acc, [k \in {key} |-> StoredValue(chs, key)]))

\* for location in all_locations: ...   seen records the chans of each
\* location the loop reached.
RECURSIVE LocationLoop(_, _, _, _, _)
LocationLoop(chs, prios, locations, acc, seen) ==
    IF Len(locations) = 0
    THEN [status |-> "returned", value |-> acc, seen |-> seen]
    ELSE LET location == Head(locations)
             chans    == ChansOf(chs, location)
             seen2    == Update(seen, [l \in {location} |-> chans])
             r        == CopyChannels(chs, location, CurrentChannels(chans, prios), acc)
         IN  IF r.status = "KeyError"
             THEN [status |-> "KeyError", value |-> EmptyMap, seen |-> seen2]
             ELSE LocationLoop(chs, prios, Tail(locations), r.value, seen2)

filter_channel_priority(chs, prios) ==
    LocationLoop(chs, prios, SetToSeq(AllLocations(chs)), EmptyMap, EmptyMap)

NoResult == [status |-> "none", value |-> EmptyMap]

\* The variables of filter_channel_priority when it is not the function under study.
IdleFilter ==
    /\ channels = EmptyMap
    /\ priorities = <<>>
    /\ pc_filter = "idle"
    /\ filtered = NoResult
    /\ refiltered = NoResult
    /\ chans_seen = EmptyMap

InitFilter ==
    /\ channels \in ChannelMaps
    /\ priorities \in PriorityLists
    /\ pc_filter = "start"
    /\ filtered = NoResult
    /\ refiltered = NoResult
    /\ chans_seen = EmptyMap
    /\ IdleMerge
    /\ IdleFetch

\* filter_channel_priority(channels, priorities)
Filter ==
    /\ pc_filter = "start"
    /\ LET r == filter_channel_priority(channels, priorities)
       IN  /\ filtered' = [status |-> r.status, value |-> r.value]
           /\ chans_seen' = r.seen
    /\ pc_filter' = "once"
    /\ UNCHANGED <<channels, priorities, refiltered>>
    /\ UNCHANGED <<merge_vars, fetch_vars>>

\* filter_channel_priority(filter_channel_priority(channels, priorities), priorities):
\* the outer call on the result of the first; a KeyError of the inner call
\* propagates and the outer call is not made.
FilterAgain ==
    /\ pc_filter = "once"
    /\ IF filtered.status = "returned"
       THEN LET r == filter_channel_priority(filtered.value, priorities)
            IN  refiltered' = [status |-> r.status, value |-> r.value]
       ELSE refiltered' = filtered
    /\ pc_filter' = "twice"
    /\ UNCHANGED <<channels, priorities, filtered, chans_seen>>
    /\ UNCHANGED <<merge_vars, fetch_vars>>

NextFilter == Filter \/ FilterAgain

SpecFilter == InitFilter /\ [][NextFilter]_vars

(***************************************************************************)
(* get_availability: the two try blocks.                                   *)
(***************************************************************************)
InitMerge ==
    /\ logger \in {"None", "logger"}
    /\ pc = "try_iris"
    /\ availability = EmptyMap
    /\ diagnostics = <<>>
    /\ called = <<>>
    /\ outcome = [s \in Sources |-> NotCalled]
    /\ propagated = "none"
    /\ IdleFilter
    /\ IdleFetch

\* One try/except block of get_availability: the fetcher of source is called
\* and ends with o; next_pc is the code after the block.
TryBlock(source, o, next_pc) ==
    /\ called' = Append(called, source)
    /\ outcome' = [outcome EXCEPT ![source] = o]
    /\ IF o.kind = "returns"
       THEN /\ availability' = Update(availability, o.value)
            /\ pc' = next_pc
            /\ UNCHANGED <<diagnostics, propagated>>
       ELSE IF Catches(o.exc)
       THEN /\ diagnostics' = Append(diagnostics,
                                  [sink |-> Sink(logger), msg |-> Message(source, o.exc)])
            /\ pc' = next_pc
            /\ UNCHANGED <<availability, propagated>>
       ELSE /\ propagated' = o.exc
            /\ pc' = "raised"
            /\ UNCHANGED <<availability, diagnostics>>
    /\ UNCHANGED logger
    /\ UNCHANGED <<filter_vars, fetch_vars>>

TryIris == pc = "try_iris" /\ \E o \in Outcomes : TryBlock("IRIS", o, "try_arclink")

TryArclink == pc = "try_arclink" /\ \E o \in Outcomes : TryBlock("ArcLink", o, "returned")

NextMerge == TryIris \/ TryArclink

SpecMerge == InitMerge /\ [][NextMerge]_vars

(***************************************************************************)
(* Claims about filter_channel_priority.                                   *)
(***************************************************************************)
\* The network.station.location of a key: its first three dot-separated segments.
GroupOf(key) == Take(Split(key, "."), 3)

\* The keys of chs whose first three segments are those of location.
GroupKeys(chs, location) ==
    {k \in DOMAIN chs : GroupOf(k) = Split(location, ".")}

GroupCodes(chs, location) == {Last(Split(k, ".")) : k \in GroupKeys(chs, location)}

\* The index of the first pattern matching one of codes, 0 when there is none.
FirstMatching(codes, prios) ==
    LET hits == {i \in 1..Len(prios) : \E c \in codes : fnmatch(c, prios[i])}
    IN  IF hits = {} THEN 0 ELSE CHOOSE i \in hits : \A j \in hits : i =< j

\* The keys of a group that the priority rule keeps.
KeptKeys(chs, prios, location) ==
    LET first == FirstMatching(GroupCodes(chs, location), prios)
    IN  IF first = 0 THEN {}
        ELSE {k \in GroupKeys(chs, location) : fnmatch(Last(Split(k, ".")), prios[first])}

\* C4: for every network.station.location group of the input, the filter keeps
\* exactly the group's channels matching the first pattern that matches one of
\* the group's channel codes, and none that match only later patterns.
C4_FirstPatternWins ==
    pc_filter # "start" =>
        /\ filtered.status = "returned"
        /\ \A location \in AllLocations(channels) :
              {k \in DOMAIN filtered.value : GroupOf(k) = Split(location, ".")}
                  = KeptKeys(channels, priorities, location)

\* C5: the filter completes without raising for every map of 4-part keys and
\* every priority list; a group that no pattern matches contributes nothing.
C5_NeverRaises ==
    pc_filter # "start" =>
        /\ filtered.status = "returned"
        /\ \A location \in AllLocations(channels) :
              FirstMatching(GroupCodes(channels, location), priorities) = 0
                  => \A k \in DOMAIN filtered.value : GroupOf(k) # Split(location, ".")

\* C6: the filter is idempotent: applying it twice with the same priorities
\* gives what applying it once gives.
C6_Idempotent == pc_filter = "twice" => refiltered = filtered

\* C6 witness: a second application on an output that dropped some channels
\* and kept others.
C6_Witness ==
    /\ pc_filter = "twice"
    /\ refiltered.status = "returned"
    /\ DOMAIN filtered.value # {}
    /\ DOMAIN filtered.value # DOMAIN channels
    /\ Cardinality(AllLocations(filtered.value)) > 1

\* C7: the output is a sub-map of the input: every output key is an input key
\* with the input's location value.
C7_SubMap ==
    filtered.status = "returned" =>
        \A k \in DOMAIN filtered.value :
            k \in DOMAIN channels /\ filtered.value[k] = channels[k]

\* C7 witness: an output that keeps two keys of different location values and
\* drops a third.
C7_Witness ==
    /\ filtered.status = "returned"
    /\ DOMAIN filtered.value # DOMAIN channels
    /\ \E k1, k2 \in DOMAIN filtered.value : filtered.value[k1] # filtered.value[k2]

\* C10: the channel codes considered for a group are exactly the codes of the
\* keys whose first three segments are the group's, whatever the other groups.
C10_DelimiterAwareGroups ==
    \A location \in DOMAIN chans_seen :
        /\ Range(chans_seen[location]) = GroupCodes(channels, location)
        /\ Len(chans_seen[location]) = Cardinality(GroupKeys(channels, location))

(***************************************************************************)
(* Claims about get_availability.                                          *)
(***************************************************************************)
Terminal == pc \in {"returned", "raised"}

Raised(s) == outcome[s].kind = "raises"

Returned(s) == outcome[s].kind = "returns"

Other(s) == IF s = "IRIS" THEN "ArcLink" ELSE "IRIS"

\* The sink a diagnostic goes to: the logger if one is given, else a warning.
ExpectedSink == IF logger = "logger" THEN "logger.error" ELSE "warnings.warn"

\* C1 as stated: get_availability never raises, whatever exception a fetcher
\* raises, and returns the empty map when both fetchers fail.
C1_NeverRaises ==
    /\ pc # "raised"
    /\ (pc = "returned" /\ \A s \in Sources : Raised(s)) => availability = EmptyMap

\* C1 as amended: get_availability never raises when every exception the
\* fetchers raise derives from Exception, and returns the empty map when both
\* fetchers fail.
C1_NeverRaisesOnExceptionSubclasses ==
    /\ (\A s \in Sources : Raised(s) => outcome[s].exc \in {"IOError", "XMLSyntaxError"})
          => pc # "raised"
    /\ (pc = "returned" /\ \A s \in Sources : Raised(s)) => availability = EmptyMap

\* C1 witness: both fetchers failed, without a logger, and the call returned.
C1_Witness ==
    /\ pc = "returned"
    /\ \A s \in Sources : Raised(s)
    /\ outcome["IRIS"].exc # outcome["ArcLink"].exc
    /\ logger = "None"
    /\ availability = EmptyMap

\* A key both fetchers returned, with different location values.
Collides(k) ==
    /\ \A s \in Sources : Returned(s) /\ k \in DOMAIN outcome[s].value
    /\ outcome["IRIS"].value[k] # outcome["ArcLink"].value[k]

\* C2 as stated: ArcLink's map is applied first and the IRIS map is merged on
\* top, so a key of both maps gets the IRIS value.
C2_IrisWinsCollision ==
    pc = "returned" =>
        \A k \in MergeKeys :
            Collides(k) => /\ availability[k] = outcome["IRIS"].value[k]
                           /\ called = <<"ArcLink", "IRIS">>

\* C2 as amended: the IRIS map is applied first and ArcLink's map is merged on
\* top, so a key of both maps gets ArcLink's value.
C2_ArclinkWinsCollision ==
    pc = "returned" =>
        \A k \in MergeKeys :
            Collides(k) => /\ availability[k] = outcome["ArcLink"].value[k]
                           /\ called = <<"IRIS", "ArcLink">>

\* C2 witness: the call returned and a key of both maps has two values.
C2_Witness == pc = "returned" /\ \E k \in MergeKeys : Collides(k)

\* What C3 says of a failing source s once the call has ended: the other
\* fetcher was called, and if it returned a map the result is that map and
\* the one diagnostic names s and went to the expected sink.
OtherSourceServed(s) ==
    /\ outcome[Other(s)].kind # "not called"
    /\ Returned(Other(s)) =>
          /\ pc = "returned"
          /\ availability = outcome[Other(s)].value
          /\ diagnostics = << [sink |-> ExpectedSink, msg |-> [source |-> s, exc |-> outcome[s].exc]] >>

NoDiagnosticForSuccess ==
    \A i \in DOMAIN diagnostics : Raised(diagnostics[i].msg.source)

\* C3 as stated: whichever fetcher raises, the other is still called and its
\* map merged; with exactly one failure the result is the other map and one
\* diagnostic names the failing source; no diagnostic for a success.
C3_OtherSourceStillServed ==
    Terminal =>
        /\ \A s \in Sources : Raised(s) => OtherSourceServed(s)
        /\ NoDiagnosticForSuccess

\* C3 as amended: the same, for a fetcher that raises an exception deriving
\* from Exception.
C3_OtherSourceStillServedOnExceptionSubclasses ==
    Terminal =>
        /\ \A s \in Sources :
              (Raised(s) /\ outcome[s].exc \in {"IOError", "XMLSyntaxError"})
                  => OtherSourceServed(s)
        /\ NoDiagnosticForSuccess

\* C3 witness: IRIS failed, ArcLink returned a non-empty map, a logger is given.
C3_Witness ==
    /\ pc = "returned"
    /\ Raised("IRIS")
    /\ Returned("ArcLink")
    /\ DOMAIN outcome["ArcLink"].value # {}
    /\ logger = "logger"
    /\ Len(diagnostics) = 1

(***************************************************************************)
(* _get_arclink_availability                                               *)
(***************************************************************************)
\* An entry of the listing: its key and, read for station entries only, the
\* attributes restricted, latitude and longitude.
Entry(key, restricted, latitude, longitude) ==
    [key |-> key, restricted |-> restricted, latitude |-> latitude, longitude |-> longitude]

ListingEntries ==
    { Entry(<<"X">>, FALSE, 0, 0),
      Entry(<<"X", ".", "A">>, FALSE, 1, 1),
      Entry(<<"X", ".", "A">>, TRUE, 1, 1),
      Entry(<<"X", ".", "B">>, FALSE, 2, 0),
      Entry(Fmt4(<<"X">>, <<"A">>, <<>>, <<"H", "H", "Z">>), FALSE, 0, 0),
      Entry(Fmt4(<<"X">>, <<"B">>, <<"0", "0">>, <<"B", "H", "Z">>), FALSE, 0, 0) }

\* The listings: a dict in some iteration order, so no key twice.
Listings ==
    {l \in UNION {[1..n -> ListingEntries] : n \in 0..MaxEntries} :
        \A i, j \in DOMAIN l : i # j => l[i].key # l[j].key}

\* The first loop (lines 50-69): networks skipped, channels collected, the
\* unrestricted stations in bounds kept.
RECURSIVE StationLoop(_, _, _, _, _, _, _)
StationLoop(entries, lat1, lat2, lng1, lng2, stations_in_bounds, chans) ==
    IF Len(entries) = 0
    THEN [stations_in_bounds |-> stations_in_bounds, channels |-> chans]
    ELSE LET value     == Head(entries)
             key       == value.key
             split_key == Split(key, ".")
             rest      == Tail(entries)
         IN  IF Len(split_key) = 1
             THEN StationLoop(rest, lat1, lat2, lng1, lng2, stations_in_bounds, chans)
             ELSE IF Len(split_key) = 4
             THEN StationLoop(rest, lat1, lat2, lng1, lng2, stations_in_bounds,
                      Append(chans, <<Join(".", SubSeq(split_key, 1, 2)),
                                      Join(".", SubSeq(split_key, 3, 4))>>))
             ELSE IF value.restricted
             THEN StationLoop(rest, lat1, lat2, lng1, lng2, stations_in_bounds, chans)
             ELSE IF ~ InBounds(value.latitude, value.longitude, lat1, lat2, lng1, lng2)
             THEN StationLoop(rest, lat1, lat2, lng1, lng2, stations_in_bounds, chans)
             ELSE StationLoop(rest, lat1, lat2, lng1, lng2,
                      Update(stations_in_bounds,
                             [k \in {key} |-> [latitude |-> value.latitude,
                                               longitude |-> value.longitude]]),
                      chans)

\* The second loop (lines 72-75): the channels of the stations kept.
RECURSIVE ChannelLoop(_, _, _)
ChannelLoop(chans, stations_in_bounds, acc) ==
    IF Len(chans) = 0 THEN acc
    ELSE LET network_station == Head(chans)[1]
             loc_channel     == Head(chans)[2]
         IN  IF network_station \in DOMAIN stations_in_bounds
             THEN ChannelLoop(Tail(chans), stations_in_bounds,
                      Update(acc, [k \in {Fmt2(network_station, loc_channel)} |->
                                      stations_in_bounds[network_station]]))
             ELSE ChannelLoop(Tail(chans), stations_in_bounds, acc)

get_arclink_availability(entries, lat1, lat2, lng1, lng2) ==
    LET first == StationLoop(entries, lat1, lat2, lng1, lng2, EmptyMap, <<>>)
    IN  ChannelLoop(first.channels, first.stations_in_bounds, EmptyMap)

InitArclink ==
    /\ min_lat \in Coords /\ max_lat \in Coords
    /\ min_lng \in Coords /\ max_lng \in Coords
    /\ starttime = 0 /\ endtime = 0
    /\ everything \in Listings
    /\ root = <<>>
    /\ pc_fetch = "arclink"
    /\ available_channels = EmptyMap
    /\ IdleFilter
    /\ IdleMerge

\* _get_arclink_availability(min_lat, max_lat, min_lng, max_lng, starttime, endtime)
GetArclinkAvailability ==
    /\ pc_fetch = "arclink"
    /\ available_channels' =
          get_arclink_availability(everything, min_lat, max_lat, min_lng, max_lng)
    /\ pc_fetch' = "arclink_done"
    /\ UNCHANGED <<min_lat, max_lat, min_lng, max_lng, starttime, endtime, everything, root>>
    /\ UNCHANGED <<filter_vars, merge_vars>>

NextArclink == GetArclinkAvailability

SpecArclink == InitArclink /\ [][NextArclink]_vars

\* C8: the ArcLink fetcher emits a channel entry exactly when the listing has
\* an unrestricted station entry of its network.station inside the closed
\* bounding box, with that station's location, whatever the iteration order.
C8_ArclinkEmitsIffStationKept ==
    pc_fetch = "arclink_done" =>
        LET entries == Range(everything)
            station_of(k) == Join(".", SubSeq(Split(k, "."), 1, 2))
            kept(st, k) ==
                /\ st.key = station_of(k)
                /\ ~ st.restricted
                /\ min_lat =< st.latitude /\ st.latitude =< max_lat
                /\ min_lng =< st.longitude /\ st.longitude =< max_lng
            channel_keys == {e.key : e \in {x \in entries : Len(Split(x.key, ".")) = 4}}
        IN  /\ DOMAIN available_channels =
                  {k \in channel_keys : \E st \in entries : kept(st, k)}
            /\ \A k \in DOMAIN available_channels :
                  \E st \in entries :
                      /\ kept(st, k)
                      /\ available_channels[k] =
                            [latitude |-> st.latitude, longitude |-> st.longitude]

\* C8 witness: a channel entry iterated before its station entry is emitted,
\* the station lying on the boundary of the box.
C8_Witness ==
    /\ pc_fetch = "arclink_done"
    /\ \E i, j \in DOMAIN everything :
          /\ i < j
          /\ everything[i].key \in DOMAIN available_channels
          /\ everything[j].key = Join(".", SubSeq(Split(everything[i].key, "."), 1, 2))
          /\ everything[j].latitude = max_lat
          /\ everything[j].longitude = min_lng
          /\ min_lat < max_lat

(***************************************************************************)
(* _get_iris_availability                                                  *)
(***************************************************************************)
\* str.strip(): leading and trailing blanks removed.
RECURSIVE LStrip(_)
LStrip(s) == IF Len(s) > 0 /\ Head(s) = " " THEN LStrip(Tail(s)) ELSE s

RECURSIVE RStrip(_)
RStrip(s) ==
    IF Len(s) > 0 /\ s[Len(s)] = " " THEN RStrip(SubSeq(s, 1, Len(s) - 1)) ELSE s

Strip(s) == RStrip(LStrip(s))

\* float(text) for a text of decimal digits.
DigitValue(c) ==
    CASE c = "0" -> 0 [] c = "1" -> 1 [] c = "2" -> 2 [] c = "3" -> 3 [] c = "4" -> 4
      [] c = "5" -> 5 [] c = "6" -> 6 [] c = "7" -> 7 [] c = "8" -> 8 [] c = "9" -> 9

RECURSIVE ParseDigits(_, _)
ParseDigits(text, acc) ==
    IF Len(text) = 0 THEN acc
    ELSE ParseDigits(Tail(text), acc * 10 + DigitValue(Head(text)))

ParseFloat(text) == ParseDigits(Strip(text), 0)

\* The elements of the document: Station, Channel, Availability (a sequence
\* of Extent elements) and Extent.
StationElement(net_code, sta_code, Lat, Lon, Channel) ==
    [net_code |-> net_code, sta_code |-> sta_code, Lat |-> Lat, Lon |-> Lon,
     Channel |-> Channel]

ChannelElement(chan_code, loc_code, Availability) ==
    [chan_code |-> chan_code, loc_code |-> loc_code, Availability |-> Availability]

Extents == {e \in [start : Times, end : Times] : e.start =< e.end}

\* What a Channel element can hold: no Availability, one without extents, one
\* extent, two extents in one Availability, two Availability of one extent.
Before(e1, e2) == e1.start < e2.start \/ (e1.start = e2.start /\ e1.end < e2.end)

AvailabilityPool ==
    {<<>>, << <<>> >>}
    \cup {<< <<e>> >> : e \in Extents}
    \cup {<< <<p[1], p[2]>> >> : p \in {q \in Extents \X Extents : q[1] # q[2]}}
    \cup {<< <<p[1]>>, <<p[2]>> >> : p \in {q \in Extents \X Extents : Before(q[1], q[2])}}

\* The documents: a station with one channel always available, and a station
\* with one channel of any availability.  Codes come padded with blanks.
Documents ==
    {<< StationElement(<<"X">>, <<"B", " ">>, <<"2">>, <<"0">>,
            << ChannelElement(<<"L", "H", "Z">>, <<" ", "0", "0">>,
                   << <<[start |-> 0, end |-> MaxTime]>> >>) >>),
        StationElement(<<"X">>, <<"A">>, <<"1">>, <<"1">>,
            << ChannelElement(<<"B", "H", "Z">>, <<>>, a) >>) >> :
     a \in AvailabilityPool}

\* A mutant: an extent that holds either end of the window is accepted.
CoversEitherEnd(channel_starttime, channel_endtime, start, end) ==
    \/ (channel_starttime =< start /\ start =< channel_endtime)
    \/ (channel_starttime =< end /\ end =< channel_endtime)

\* (channel_starttime <= starttime <= channel_endtime) and
\* (channel_starttime <= endtime <= channel_endtime)
Covers(channel_starttime, channel_endtime, start, end) ==
    /\ (channel_starttime =< start /\ start =< channel_endtime)
    /\ (channel_starttime =< end /\ end =< channel_endtime)

\* for extent in time_span.findall("Extent")
RECURSIVE ExtentLoop(_, _, _, _, _, _)
ExtentLoop(extents, key, value, start, end, acc) ==
    IF Len(extents) = 0 THEN acc
    ELSE LET extent == Head(extents)
         IN  ExtentLoop(Tail(extents), key, value, start, end,
                 IF Covers(extent.start, extent.end, start, end)
                 THEN Update(acc, [k \in {key} |-> value])
                 ELSE acc)

\* for time_span in channel.findall("Availability")
RECURSIVE TimeSpanLoop(_, _, _, _, _, _)
TimeSpanLoop(time_spans, key, value, start, end, acc) ==
    IF Len(time_spans) = 0 THEN acc
    ELSE TimeSpanLoop(Tail(time_spans), key, value, start, end,
             ExtentLoop(Head(time_spans), key, value, start, end, acc))

\* for channel in station.findall("Channel")
RECURSIVE IrisChannelLoop(_, _, _, _, _, _, _)
IrisChannelLoop(chans, network_code, station_code, value, start, end, acc) ==
    IF Len(chans) = 0 THEN acc
    ELSE LET channel       == Head(chans)
             channel_code  == Strip(channel.chan_code)
             location_code == Strip(channel.loc_code)
             key == Fmt4(network_code, station_code, location_code, channel_code)
         IN  IrisChannelLoop(Tail(chans), network_code, station_code, value, start, end,
                 TimeSpanLoop(channel.Availability, key, value, start, end, acc))

\* for station in root.findall("Station")
RECURSIVE IrisStationLoop(_, _, _, _, _, _, _, _)
IrisStationLoop(stations, lat1, lat2, lng1, lng2, start, end, acc) ==
    IF Len(stations) = 0 THEN acc
    ELSE LET station      == Head(stations)
             latitude     == ParseFloat(station.Lat)
             longitude    == ParseFloat(station.Lon)
             network_code == Strip(station.net_code)
             station_code == Strip(station.sta_code)
         IN  IF ~ InBounds(latitude, longitude, lat1, lat2, lng1, lng2)
             THEN IrisStationLoop(Tail(stations), lat1, lat2, lng1, lng2, start, end, acc)
             ELSE IrisStationLoop(Tail(stations), lat1, lat2, lng1, lng2, start, end,
                      IrisChannelLoop(station.Channel, network_code, station_code,
                          [latitude |-> latitude, longitude |-> longitude],
                          start, end, acc))

get_iris_availability(document, lat1, lat2, lng1, lng2, start, end) ==
    IrisStationLoop(document, lat1, lat2, lng1, lng2, start, end, EmptyMap)

InitIris ==
    /\ min_lat \in Coords /\ max_lat \in Coords
    /\ min_lng \in Coords /\ max_lng \in Coords
    /\ starttime \in Times /\ endtime \in Times
    /\ everything = <<>>
    /\ root \in Documents
    /\ pc_fetch = "iris"
    /\ available_channels = EmptyMap
    /\ IdleFilter
    /\ IdleMerge

\* _get_iris_availability(min_lat, max_lat, min_lng, max_lng, starttime, endtime)
GetIrisAvailability ==
    /\ pc_fetch = "iris"
    /\ available_channels' =
          get_iris_availability(root, min_lat, max_lat, min_lng, max_lng, starttime, endtime)
    /\ pc_fetch' = "iris_done"
    /\ UNCHANGED <<min_lat, max_lat, min_lng, max_lng, starttime, endtime, everything, root>>
    /\ UNCHANGED <<filter_vars, merge_vars>>

NextIris == GetIrisAvailability

SpecIris == InitIris /\ [][NextIris]_vars

\* The key a Channel element of a Station element is emitted under.
ChannelKey(st, ch) ==
    Fmt4(Strip(st.net_code), Strip(st.sta_code), Strip(ch.loc_code), Strip(ch.chan_code))

\* The station lies in the closed bounding box.
StationInBox(st) ==
    /\ min_lat =< ParseFloat(st.Lat) /\ ParseFloat(st.Lat) =< max_lat
    /\ min_lng =< ParseFloat(st.Lon) /\ ParseFloat(st.Lon) =< max_lng

\* One single extent of the channel holds the whole window.
SingleExtentHoldsWindow(ch) ==
    \E i \in DOMAIN ch.Availability :
        \E j \in DOMAIN ch.Availability[i] :
            /\ ch.Availability[i][j].start =< starttime
            /\ endtime =< ch.Availability[i][j].end

\* C9: for a window with start =< end the IRIS fetcher emits a channel exactly
\* when its station lies in the closed bounding box and one single extent of
\* the channel has e_start =< start and end =< e_end.
C9_IrisEmitsIffSingleExtentCovers ==
    (pc_fetch = "iris_done" /\ starttime =< endtime) =>
        \A i \in DOMAIN root :
            \A j \in DOMAIN root[i].Channel :
                (ChannelKey(root[i], root[i].Channel[j]) \in DOMAIN available_channels)
                    <=> (StationInBox(root[i]) /\ SingleExtentHoldsWindow(root[i].Channel[j]))

\* C9 witness: a window that two disjoint extents cover only together is
\* rejected for one channel while the other station's channel is emitted.
C9_Witness ==
    /\ pc_fetch = "iris_done"
    /\ starttime < endtime
    /\ StationInBox(root[2])
    /\ ChannelKey(root[2], root[2].Channel[1]) \notin DOMAIN available_channels
    /\ ChannelKey(root[1], root[1].Channel[1]) \in DOMAIN available_channels
    /\ \E e1, e2 \in Extents :
          /\ root[2].Channel[1].Availability = << <<e1>>, <<e2>> >>
          /\ e1.start =< starttime /\ starttime =< e1.end
          /\ e2.start =< endtime /\ endtime =< e2.end
          /\ e1.end < e2.start

====
